---- MODULE Spec2Model ----
(***************************************************************************)
(* Model of the ingestion core of src/streamlit-gsheets.py: the file cache *)
(* (class DataCache) and the loader (class DataLoader) that ties the       *)
(* spreadsheet fetch to the cache.                                         *)
(*                                                                         *)
(* The class body of DataLoader defines __init__, _format_date, load_data  *)
(* and _process_numeric_columns twice (lines 170-356 and 372-458).  In     *)
(* Python the later def rebinds the name, so the methods that run are the  *)
(* second definitions; _fetch_from_sheets and _validate_dataframe exist    *)
(* once (lines 251-310) and are never called by the load_data that runs.   *)
(*                                                                         *)
(* Conventions.                                                            *)
(*  - A string cell is a sequence of one-character strings, so that the    *)
(*    parsing the code does can be computed.  "nbsp" stands for '\xa0'.    *)
(*  - Column names are TLA+ strings; "Trener" stands for the Cyrillic      *)
(*    coach column and "ruki" for the Cyrillic hands column.               *)
(*  - A number is <<m, e>>, the decimal m / 10^e with no trailing zero.    *)
(*  - Time is counted in hours.                                            *)
(*  - Grids are rectangular (every row as long as the header).             *)
(***************************************************************************)
EXTENDS Integers, Sequences, FiniteSets, TLC

VARIABLES now, cacheFile, lastSaved, lastCall, legacyDtypes

vars == <<now, cacheFile, lastSaved, lastCall, legacyDtypes>>

(***************************************************************************)
(* Program constants.                                                      *)
(***************************************************************************)
NUMERIC_COLUMNS ==
    <<"ruki", "RB%_PLAYER", "Rake_USD_PLAYER", "RB_USD_PLAYER", "Win_USD_PLAYER", "Profit_PLAYER">>

\* timedelta(days=1), in hours
CACHE_TTL == 24

\* DataFrame.to_json is called without double_precision: 10 decimal places
DOUBLE_PRECISION == 10

(***************************************************************************)
(* Bounds of the model.                                                    *)
(***************************************************************************)
MaxRows == 2
MaxClock == 25

(***************************************************************************)
(* Cells of a DataFrame.                                                   *)
(***************************************************************************)
StrCell(s) == [t |-> "str", s |-> s, n |-> <<>>]
NumCell(p) == [t |-> "num", s |-> <<>>, n |-> p]
DateCell(d) == [t |-> "date", s |-> <<>>, n |-> d]
NaN == [t |-> "nan", s |-> <<>>, n |-> <<>>]
NoneCell == [t |-> "none", s |-> <<>>, n |-> <<>>]
NaT == [t |-> "nat", s |-> <<>>, n |-> <<>>]

\* pd.isna
IsNa(c) == c.t \in {"nan", "none", "nat"}

(***************************************************************************)
(* Characters and sequences.                                               *)
(***************************************************************************)
Digits == <<"0", "1", "2", "3", "4", "5", "6", "7", "8", "9">>

IsDigit(c) == \E i \in 1..10 : Digits[i] = c

DigitVal(c) == (CHOOSE i \in 1..10 : Digits[i] = c) - 1

AllDigits(s) == \A i \in 1..Len(s) : IsDigit(s[i])

RECURSIVE ParseDigits(_)
ParseDigits(s) ==
    IF Len(s) = 0 THEN 0
    ELSE 10 * ParseDigits(SubSeq(s, 1, Len(s) - 1)) + DigitVal(s[Len(s)])

RECURSIVE Pow10(_)
Pow10(k) == IF k = 0 THEN 1 ELSE 10 * Pow10(k - 1)

\* str.replace(old, new) for a one-character old, regex off
RECURSIVE StrReplace(_, _, _)
StrReplace(s, old, new) ==
    IF Len(s) = 0 THEN <<>>
    ELSE (IF Head(s) = old THEN new ELSE <<Head(s)>>) \o StrReplace(Tail(s), old, new)

RECURSIVE LStrip(_)
LStrip(s) == IF Len(s) > 0 /\ Head(s) = " " THEN LStrip(Tail(s)) ELSE s

RECURSIVE RStrip(_)
RStrip(s) ==
    IF Len(s) > 0 /\ s[Len(s)] = " " THEN RStrip(SubSeq(s, 1, Len(s) - 1)) ELSE s

RECURSIVE RStripZeros(_)
RStripZeros(s) ==
    IF Len(s) > 0 /\ s[Len(s)] = "0" THEN RStripZeros(SubSeq(s, 1, Len(s) - 1)) ELSE s

\* positions of character c in s
Positions(s, c) == {i \in 1..Len(s) : s[i] = c}

SeqMap(Op(_), s) == [i \in 1..Len(s) |-> Op(s[i])]

\* index of a column name in a column list, 0 when absent
ColIndex(columns, name) ==
    IF \E i \in 1..Len(columns) : columns[i] = name
    THEN CHOOSE i \in 1..Len(columns) : columns[i] = name
    ELSE 0

(***************************************************************************)
(* Numbers.                                                                *)
(***************************************************************************)
\* the number with integer digits ip and fraction digits fp, negated if neg
MakeNumber(ip, fp, neg) ==
    LET f == RStripZeros(fp)
        m == ParseDigits(ip \o f)
    IN  <<IF neg THEN 0 - m ELSE m, IF m = 0 THEN 0 ELSE Len(f)>>

\* the text of an unsigned decimal: digits with at most one period and at
\* least one digit
IsDecimalText(s) ==
    LET dots == Positions(s, ".")
    IN  /\ Cardinality(dots) <= 1
        /\ \A i \in 1..Len(s) : IsDigit(s[i]) \/ s[i] = "."
        /\ \E i \in 1..Len(s) : IsDigit(s[i])

DecimalValue(s, neg) ==
    LET dots == Positions(s, ".")
        d == IF dots = {} THEN Len(s) + 1 ELSE CHOOSE i \in dots : TRUE
    IN  MakeNumber(SubSeq(s, 1, d - 1), SubSeq(s, d + 1, Len(s)), neg)

\* pd.to_numeric(errors='coerce') on one string: surrounding blanks are
\* skipped, one sign is allowed, anything else that is no decimal is NaN
ToNumeric(s) ==
    LET b == RStrip(LStrip(s))
        signed == Len(b) > 0 /\ b[1] \in {"-", "+"}
        body == IF signed THEN Tail(b) ELSE b
    IN  IF IsDecimalText(body)
        THEN NumCell(DecimalValue(body, signed /\ b[1] = "-"))
        ELSE NaN

(***************************************************************************)
(* Dates: <<year, month, day>>.                                            *)
(***************************************************************************)
IsLeap(y) == (y % 4 = 0 /\ y % 100 # 0) \/ y % 400 = 0

DaysInMonth(y, m) ==
    IF m = 2 THEN (IF IsLeap(y) THEN 29 ELSE 28)
    ELSE IF m \in {4, 6, 9, 11} THEN 30 ELSE 31

IsCalendarDate(y, m, d) == y >= 1 /\ m \in 1..12 /\ d >= 1 /\ d <= DaysInMonth(y, m)

\* the three fields of s around a separator that occurs exactly twice
Fields(s, sep) ==
    LET ps == Positions(s, sep)
        p1 == CHOOSE i \in ps : \A j \in ps : i <= j
        p2 == CHOOSE i \in ps : \A j \in ps : i >= j
    IN  IF Cardinality(ps) # 2 THEN <<>>
        ELSE <<SubSeq(s, 1, p1 - 1), SubSeq(s, p1 + 1, p2 - 1), SubSeq(s, p2 + 1, Len(s))>>

DigitField(f, lo, hi) == Len(f) >= lo /\ Len(f) <= hi /\ AllDigits(f)

\* strptime-style parse with the format %d.%m.%Y; <<>> when it fails
ParseDMY(s) ==
    LET f == Fields(s, ".")
    IN  IF Len(f) = 3 /\ DigitField(f[1], 1, 2) /\ DigitField(f[2], 1, 2) /\ DigitField(f[3], 4, 4)
           /\ IsCalendarDate(ParseDigits(f[3]), ParseDigits(f[2]), ParseDigits(f[1]))
        THEN <<ParseDigits(f[3]), ParseDigits(f[2]), ParseDigits(f[1])>>
        ELSE <<>>

\* pd.to_datetime without a format, on the texts the model feeds it: ISO
\* year-month-day, or a.b.year read month first and, failing that, day first
ParseGeneric(s) ==
    LET iso == Fields(s, "-")
        dot == Fields(s, ".")
    IN  IF Len(iso) = 3 /\ DigitField(iso[1], 4, 4) /\ DigitField(iso[2], 1, 2) /\ DigitField(iso[3], 1, 2)
           /\ IsCalendarDate(ParseDigits(iso[1]), ParseDigits(iso[2]), ParseDigits(iso[3]))
        THEN <<ParseDigits(iso[1]), ParseDigits(iso[2]), ParseDigits(iso[3])>>
        ELSE IF Len(dot) = 3 /\ DigitField(dot[1], 1, 2) /\ DigitField(dot[2], 1, 2) /\ DigitField(dot[3], 4, 4)
        THEN (IF IsCalendarDate(ParseDigits(dot[3]), ParseDigits(dot[1]), ParseDigits(dot[2]))
              THEN <<ParseDigits(dot[3]), ParseDigits(dot[1]), ParseDigits(dot[2])>>
              ELSE ParseDMY(s))
        ELSE <<>>

\* DataLoader._format_date, the definition that runs: the primary format,
\* then the generic parse, then None
FormatDate(c) ==
    IF c.t # "str" THEN (IF c.t = "date" THEN c ELSE NoneCell)
    ELSE IF ParseDMY(c.s) # <<>> THEN DateCell(ParseDMY(c.s))
    ELSE IF ParseGeneric(c.s) # <<>> THEN DateCell(ParseGeneric(c.s))
    ELSE NoneCell

(***************************************************************************)
(* DataFrames: [columns |-> names, data |-> rows], a row a sequence of     *)
(* cells in column order.                                                  *)
(***************************************************************************)
\* pd.DataFrame(values[1:], columns=values[0]): the first row names the
\* columns, every other cell is a string
DataFrame(values) ==
    [columns |-> values[1],
     data |-> [i \in 1..(Len(values) - 1) |-> SeqMap(StrCell, values[i + 1])]]

Column(df, k) == [i \in 1..Len(df.data) |-> df.data[i][k]]

\* df[col] = series
SetColumn(df, k, series) ==
    [df EXCEPT !.data = [i \in 1..Len(df.data) |-> [df.data[i] EXCEPT ![k] = series[i]]]]

\* df[date_column].apply(f)
ApplyColumn(df, k, Op(_)) == SetColumn(df, k, SeqMap(Op, Column(df, k)))

EmptyFrame == [columns |-> <<>>, data |-> <<>>]

\* Optional[DataFrame]
None == [some |-> FALSE, df |-> EmptyFrame]
Some(df) == [some |-> TRUE, df |-> df]

(***************************************************************************)
(* DataLoader._process_numeric_columns, the definition that runs.          *)
(***************************************************************************)
\* Series.replace('', np.nan)
ReplaceEmpty(series) ==
    [i \in 1..Len(series) |-> IF series[i] = StrCell(<<>>) THEN NaN ELSE series[i]]

\* After a replacement a pandas that still downcasts object columns turns a
\* column left without any string into float64, and .str on it raises
\* AttributeError
StrAccessorRaises(legacy, series) ==
    LET r == ReplaceEmpty(series)
    IN  /\ legacy
        /\ r # series
        /\ \A i \in 1..Len(r) : r[i].t # "str"

\* .str.replace('\xa0', '').str.replace(',', '.').pipe(pd.to_numeric, errors='coerce')
CleanNumeric(c) ==
    IF c.t # "str" THEN NaN
    ELSE ToNumeric(StrReplace(StrReplace(c.s, "nbsp", <<>>), ",", <<".">>))

\* the loop over NUMERIC_COLUMNS from its i-th name on; an exception leaves
\* the columns converted so far
RECURSIVE NumericLoop(_, _, _)
NumericLoop(legacy, df, i) ==
    IF i > Len(NUMERIC_COLUMNS) THEN [raised |-> FALSE, df |-> df]
    ELSE LET k == ColIndex(df.columns, NUMERIC_COLUMNS[i])
         IN  IF k = 0 THEN NumericLoop(legacy, df, i + 1)
             ELSE IF StrAccessorRaises(legacy, Column(df, k)) THEN [raised |-> TRUE, df |-> df]
             ELSE NumericLoop(legacy, SetColumn(df, k, SeqMap(CleanNumeric, ReplaceEmpty(Column(df, k)))), i + 1)

\* df[df['Trener'] != '0']
DropSentinelCoach(df) ==
    LET k == ColIndex(df.columns, "Trener")
        Keep(row) == row[k] # StrCell(<<"0">>)
    IN  [df EXCEPT !.data = SelectSeq(df.data, Keep)]

\* the except branch returns the local copy as far as it got: a failure in
\* the loop, or a missing coach column (KeyError), skips the row filter
FilterRows(r) ==
    IF r.raised \/ ColIndex(r.df.columns, "Trener") = 0 THEN r.df
    ELSE DropSentinelCoach(r.df)

ProcessNumericColumns(legacy, df) == FilterRows(NumericLoop(legacy, df, 1))

(***************************************************************************)
(* DataLoader._validate_dataframe.                                         *)
(***************************************************************************)
REQUIRED_COLUMNS == <<"Trener", "nickname", "club_name">> \o NUMERIC_COLUMNS

ValidateDataframe(o) ==
    /\ o.some
    /\ Len(o.df.columns) > 0 /\ Len(o.df.data) > 0
    /\ \A i \in 1..Len(REQUIRED_COLUMNS) : ColIndex(o.df.columns, REQUIRED_COLUMNS[i]) # 0
    /\ \E i \in 1..Len(o.df.data) : ~IsNa(o.df.data[i][1])

(***************************************************************************)
(* The JSON payload of the cache file: DataFrame.to_json(orient='split')   *)
(* and pd.read_json(orient='split').                                       *)
(***************************************************************************)
JStr(s) == [t |-> "jstr", s |-> s, n |-> <<>>]
JNum(p) == [t |-> "jnum", s |-> <<>>, n |-> p]
JNull == [t |-> "jnull", s |-> <<>>, n |-> <<>>]

\* n written with exactly w digits
RECURSIVE PadDigits(_, _)
PadDigits(n, w) ==
    IF w = 0 THEN <<>> ELSE PadDigits(n \div 10, w - 1) \o <<Digits[(n % 10) + 1]>>

\* date.isoformat()
IsoFormat(d) == PadDigits(d[1], 4) \o <<"-">> \o PadDigits(d[2], 2) \o <<"-">> \o PadDigits(d[3], 2)

\* lambda x: x.isoformat() if isinstance(x, date) else None ; NaT is an
\* instance of date whose isoformat() is 'NaT'
DateToText(c) ==
    IF c.t = "date" THEN StrCell(IsoFormat(c.n))
    ELSE IF c.t = "nat" THEN StrCell(<<"N", "a", "T">>)
    ELSE NoneCell

RECURSIVE Normalize(_)
Normalize(p) ==
    IF p[1] = 0 THEN <<0, 0>>
    ELSE IF p[2] > 0 /\ p[1] % 10 = 0 THEN Normalize(<<p[1] \div 10, p[2] - 1>>)
    ELSE p

Abs(x) == IF x < 0 THEN 0 - x ELSE x

\* a float written with DOUBLE_PRECISION decimal places, rounded half up
RoundNumber(p) ==
    IF p[2] <= DOUBLE_PRECISION THEN p
    ELSE LET k == Pow10(p[2] - DOUBLE_PRECISION)
             q == (2 * Abs(p[1]) + k) \div (2 * k)
         IN  Normalize(<<IF p[1] < 0 THEN 0 - q ELSE q, DOUBLE_PRECISION>>)

JsonCell(c) ==
    IF c.t = "str" THEN JStr(c.s)
    ELSE IF c.t = "num" THEN JNum(RoundNumber(c.n))
    ELSE IF c.t = "date" THEN JStr(IsoFormat(c.n))
    ELSE JNull

\* data_copy.to_json(date_format='iso', orient='split')
ToJson(df) ==
    [columns |-> df.columns,
     data |-> [i \in 1..Len(df.data) |-> SeqMap(JsonCell, df.data[i])]]

EmptyPayload == ToJson(EmptyFrame)

\* float(text) as numpy applies it to an object column: blanks of either
\* kind around the number are skipped
RECURSIVE StripBlanks(_)
StripBlanks(s) ==
    IF Len(s) > 0 /\ Head(s) \in {" ", "nbsp"} THEN StripBlanks(Tail(s))
    ELSE IF Len(s) > 0 /\ s[Len(s)] \in {" ", "nbsp"} THEN StripBlanks(SubSeq(s, 1, Len(s) - 1))
    ELSE s

IsFloatText(s) == ToNumeric(StripBlanks(s)).t = "num"

\* read_json infers dtypes: a pandas that still coerces object columns turns
\* a column holding only number-like strings into numbers
CoercesToNumbers(legacy, series) ==
    /\ legacy
    /\ Len(series) > 0
    /\ \A i \in 1..Len(series) : series[i].t = "jstr" /\ IsFloatText(series[i].s)

FrameCell(c) ==
    IF c.t = "jstr" THEN StrCell(c.s)
    ELSE IF c.t = "jnum" THEN NumCell(c.n)
    ELSE NaN

CoercedCell(c) == ToNumeric(StripBlanks(c.s))

\* pd.read_json(StringIO(payload), orient='split')
ReadJson(legacy, payload) ==
    LET raw == [columns |-> payload.columns, data |-> payload.data]
        Col(k) == IF CoercesToNumbers(legacy, Column(raw, k))
                  THEN SeqMap(CoercedCell, Column(raw, k))
                  ELSE SeqMap(FrameCell, Column(raw, k))
    IN  [columns |-> payload.columns,
         data |-> [i \in 1..Len(payload.data) |->
                      [k \in 1..Len(payload.columns) |-> Col(k)[i]]]]

\* pd.to_datetime(series).dt.date on the first column, cell by cell; a
\* string that is no date makes the whole conversion raise
ToDate(c) ==
    IF c.t = "str" /\ ParseGeneric(c.s) # <<>> THEN DateCell(ParseGeneric(c.s))
    ELSE NaT

DateConversionRaises(series) ==
    \E i \in 1..Len(series) :
        series[i].t = "str" /\ ParseGeneric(series[i].s) = <<>> /\ series[i].s # <<"N", "a", "T">>

(***************************************************************************)
(* The grids the spreadsheet answers with.                                 *)
(***************************************************************************)
FullHeader == <<"Date", "Trener", "nickname", "club_name">> \o NUMERIC_COLUMNS

\* the range without its coach column
NoCoachHeader == <<"Date", "nickname", "club_name">> \o NUMERIC_COLUMNS

MakeRow(d, coach, nickname, club, ruki, other) ==
    <<d, coach, nickname, club, ruki, other, other, other, other, other>>

RowSamples ==
    { MakeRow(<<"0", "1", ".", "0", "3", ".", "2", "0", "2", "4">>, <<"A">>, <<"B", "o", "b">>,
              <<"X">>, <<"1", "0", "0">>, <<"1", ",", "5">>),
      MakeRow(<<"0", "2", ".", "0", "3", ".", "2", "0", "2", "4">>, <<"0">>, <<"Z", "o", "e">>,
              <<"Z">>, <<"1", "0">>, <<>>),
      MakeRow(<<"2", "0", "2", "4", "-", "0", "3", "-", "0", "3">>, <<"B">>, <<"4", "2">>,
              <<"Y">>, <<"1", " ", "2", "3", "4", ",", "5", "0">>,
              <<"0", ",", "0", "0", "0", "0", "0", "0", "0", "0", "0", "0", "1">>),
      MakeRow(<<"i", "n", "v", "a", "l", "i", "d">>, <<"A">>, <<"A", "n", "n">>,
              <<"Y">>, <<"-">>, <<"nbsp", "2", ",", "0">>) }

\* a row of the range without the coach column
NoCoachRow(row) == <<row[1]>> \o SubSeq(row, 3, Len(row))

SeqsUpTo(S, n) == UNION {[1..k -> S] : k \in 0..n}

Grids ==
    {<<>>}
    \cup {<<FullHeader>> \o rows : rows \in SeqsUpTo(RowSamples, MaxRows)}
    \cup {<<NoCoachHeader>>}
    \cup {<<NoCoachHeader, NoCoachRow(r)>> : r \in {x \in RowSamples : x[2] = <<"A">> /\ x[5] # <<"-">>}}

\* what sheet.values().get(...).execute() does: it raises, or it answers
\* with the grid of the range
Unavailable == [ok |-> FALSE, values |-> <<>>]
Answer(values) == [ok |-> TRUE, values |-> values]

Responses == {Unavailable} \cup {Answer(g) : g \in Grids}

\* lines 426-430 of load_data: the rows of the answer as a DataFrame, the
\* dates parsed and the numeric columns processed
Normalized(legacy, values) ==
    ProcessNumericColumns(legacy, ApplyColumn(DataFrame(values), 1, FormatDate))

\* Normalized, computed once for every grid of the model
NormalizedOf == [legacy \in BOOLEAN |-> [g \in Grids \ {<<>>} |-> Normalized(legacy, g)]]

Frames == {NormalizedOf[l][g] : l \in BOOLEAN, g \in Grids \ {<<>>}}

(***************************************************************************)
(* The cache file and class DataCache.                                     *)
(***************************************************************************)
AbsentFile == [kind |-> "absent", why |-> "", timestamp |-> 0, data |-> EmptyPayload]

\* {'timestamp': ..., 'data': ...} as json.dump wrote it
Entry(ts, payload) == [kind |-> "entry", why |-> "", timestamp |-> ts, data |-> payload]

\* a file that exists and is no well-formed entry
CorruptKinds == {"invalid_json", "no_timestamp", "bad_timestamp", "no_data", "bad_payload"}

Corrupt(why, ts) == [kind |-> "corrupt", why |-> why, timestamp |-> ts, data |-> EmptyPayload]

\* what a call hands back: an exception, None or a DataFrame
Returned(o) == [raised |-> FALSE, some |-> o.some, df |-> o.df]
Raised == [raised |-> TRUE, some |-> FALSE, df |-> EmptyFrame]

\* how the write of the file ends: it succeeds, open() fails and the file is
\* as before, or the write fails after open(..., 'w') truncated the file
DiskOutcomes == {"ok", "open_fails", "write_fails"}

\* lines 60-71 of save_to_cache: the dates of the first column as text, then
\* the frame as JSON
Serialize(df) == ToJson(ApplyColumn(df, 1, DateToText))

\* Serialize, computed once for every frame of the model
SerializeOf == [df \in Frames |-> Serialize(df)]

Payloads == {SerializeOf[df] : df \in Frames}

\* DataCache.save_to_cache: [raised, file]
SaveToCache(df, t, disk, file) ==
    IF Len(df.columns) = 0 THEN [raised |-> TRUE, file |-> file]
    ELSE IF disk = "open_fails" THEN [raised |-> TRUE, file |-> file]
    ELSE IF disk = "write_fails" THEN [raised |-> TRUE, file |-> Corrupt("invalid_json", 0)]
    ELSE [raised |-> FALSE, file |-> Entry(t, SerializeOf[df])]

\* lines 105-112 of load_from_cache: the payload as a DataFrame, the first
\* column as dates
DatesOfFirstColumn(df) ==
    IF Len(df.columns) = 0 THEN Raised
    ELSE IF DateConversionRaises(Column(df, 1)) THEN Raised
    ELSE Returned(Some(ApplyColumn(df, 1, ToDate)))

Deserialize(legacy, payload) == DatesOfFirstColumn(ReadJson(legacy, payload))

\* Deserialize, computed once for every payload of the model
DeserializeOf == [legacy \in BOOLEAN |-> [p \in Payloads |-> Deserialize(legacy, p)]]

\* LoadFromCacheBody without the check of the entry's age
LoadFromCacheBodyNoExpiry(legacy, file, t) ==
    IF file.kind = "absent" THEN Returned(None)
    ELSE IF file.kind = "corrupt" THEN Raised
    ELSE DeserializeOf[legacy][file.data]

\* the try block of DataCache.load_from_cache
LoadFromCacheBody(legacy, file, t) ==
    IF file.kind = "absent" THEN Returned(None)
    ELSE IF file.kind = "corrupt" /\ file.why \in {"invalid_json", "no_timestamp", "bad_timestamp"}
    THEN Raised
    ELSE IF t - file.timestamp > CACHE_TTL THEN Returned(None)
    ELSE IF file.kind = "corrupt" THEN Raised
    ELSE DeserializeOf[legacy][file.data]

\* NoneIfRaised with the exception left to the caller
Propagate(r) == r

\* except Exception: return None
NoneIfRaised(r) == IF r.raised THEN Returned(None) ELSE r

\* DataCache.load_from_cache
LoadFromCache(legacy, file, t) == NoneIfRaised(LoadFromCacheBody(legacy, file, t))

(***************************************************************************)
(* DataLoader.load_data, the definition that runs.                         *)
(***************************************************************************)
\* the dict get_cache_info returns; None is <<>>, a value v is <<v>>; error
\* tells the dict of the except branch, which has the key 'error' as well
CacheInfo(exists, size, last_modified, age_hours, error) ==
    [exists |-> exists, size |-> size, last_modified |-> last_modified,
     age_hours |-> age_hours, error |-> error]

DoesNotExist(error) == CacheInfo(FALSE, 0, <<>>, <<>>, error)

\* what a call did and handed back; removes counts the calls of os.remove,
\* info is the dict of get_cache_info
Outcome(r, fetches, loads, saves, file) ==
    [raised |-> r.raised, some |-> r.some, df |-> r.df,
     fetches |-> fetches, cacheLoads |-> loads, cacheSaves |-> saves, file |-> file,
     removes |-> 0, info |-> DoesNotExist(FALSE)]

\* lines 431-435: the save, then the processed frame is returned
Store(processed_df, saved, loads) ==
    IF saved.raised THEN Outcome(Raised, 1, loads, 1, saved.file)
    ELSE Outcome(Returned(Some(processed_df)), 1, loads, 1, saved.file)

\* lines 426-435: the answer is normalized, saved and returned
Ingest(processed_df, disk, file, t, loads) ==
    Store(processed_df, SaveToCache(processed_df, t, disk, file), loads)

\* lines 414-435: the fetch
Fetch(legacy, resp, disk, file, t, loads) ==
    IF ~resp.ok THEN Outcome(Raised, 1, loads, 0, file)
    ELSE IF resp.values = <<>> THEN Outcome(Returned(None), 1, loads, 0, file)
    ELSE Ingest(NormalizedOf[legacy][resp.values], disk, file, t, loads)

\* AfterCache with the cached frame ignored
AfterCacheRefetch(legacy, cached, resp, disk, file, t) == Fetch(legacy, resp, disk, file, t, 1)

\* lines 410-412: a cached frame is returned as it is
AfterCache(legacy, cached, resp, disk, file, t) ==
    IF cached.raised THEN Outcome(Raised, 0, 1, 0, file)
    ELSE IF cached.some THEN Outcome(cached, 0, 1, 0, file)
    ELSE Fetch(legacy, resp, disk, file, t, 1)

\* LoadDataBody with force_reload ignored
LoadDataBodyNoForce(legacy, force_reload, resp, disk, file, t) ==
    AfterCache(legacy, LoadFromCache(legacy, file, t), resp, disk, file, t)

\* the try block of load_data
LoadDataBody(legacy, force_reload, resp, disk, file, t) ==
    IF force_reload THEN Fetch(legacy, resp, disk, file, t, 0)
    ELSE AfterCache(legacy, LoadFromCache(legacy, file, t), resp, disk, file, t)

\* except Exception: return None
NoDataIfRaised(r) ==
    IF r.raised THEN Outcome(Returned(None), r.fetches, r.cacheLoads, r.cacheSaves, r.file)
    ELSE r

\* DataLoader.load_data
LoadData(legacy, force_reload, resp, disk, file, t) ==
    NoDataIfRaised(LoadDataBody(legacy, force_reload, resp, disk, file, t))

(***************************************************************************)
(* State.                                                                  *)
(*   now          the clock, in hours                                      *)
(*   cacheFile    the content of .streamlit/cache/data_cache.json          *)
(*   lastSaved    the DataFrame of the save that wrote cacheFile, None     *)
(*                when no completed save wrote it                          *)
(*   lastCall     the call that has just returned and what it did, NoCall  *)
(*                once its caller has gone on                              *)
(*   legacyDtypes whether the installed pandas infers a narrower dtype for *)
(*                object columns (it does before 3.0)                      *)
(***************************************************************************)
Call(op, force_reload, resp, disk, o) ==
    [op |-> op, force_reload |-> force_reload, resp |-> resp, disk |-> disk,
     raised |-> o.raised, some |-> o.some, df |-> o.df,
     fetches |-> o.fetches, cacheLoads |-> o.cacheLoads, cacheSaves |-> o.cacheSaves,
     removes |-> o.removes, info |-> o.info]

NoCall == Call("none", FALSE, Unavailable, "ok", Outcome(Returned(None), 0, 0, 0, AbsentFile))

Init ==
    /\ now = 0
    /\ cacheFile = AbsentFile
    /\ lastSaved = None
    /\ lastCall = NoCall
    /\ legacyDtypes \in BOOLEAN

\* data_loader.load_data(force_reload); an answer or a disk outcome that the
\* call does not get to is not drawn
Returns(force_reload, resp, disk, o) ==
    /\ lastCall = NoCall
    /\ o.fetches = 0 => resp = Unavailable
    /\ o.cacheSaves = 0 => disk = "ok"
    /\ cacheFile' = o.file
    /\ lastSaved' = IF o.cacheSaves = 0 THEN lastSaved
                    ELSE IF o.some THEN Some(o.df)
                    ELSE IF o.file = cacheFile THEN lastSaved ELSE None
    /\ lastCall' = Call("load_data", force_reload, resp, disk, o)
    /\ UNCHANGED <<now, legacyDtypes>>

LoadDataCall ==
    \E force_reload \in BOOLEAN, resp \in Responses, disk \in DiskOutcomes :
        Returns(force_reload, resp, disk,
                LoadData(legacyDtypes, force_reload, resp, disk, cacheFile, now))

\* cache.load_from_cache()
LoadFromCacheCall ==
    /\ lastCall = NoCall
    /\ lastCall' = Call("load_from_cache", FALSE, Unavailable, "ok",
                        Outcome(LoadFromCache(legacyDtypes, cacheFile, now), 0, 1, 0, cacheFile))
    /\ UNCHANGED <<now, cacheFile, lastSaved, legacyDtypes>>

\* ClearCache without the os.path.exists test: os.remove is called whatever
\* is there and raises when there is no file
ClearCacheUnguarded(file, removed) ==
    [Outcome(IF removed /\ file.kind # "absent" THEN Returned(None) ELSE Raised, 0, 0, 0,
             IF removed THEN AbsentFile ELSE file)
        EXCEPT !.removes = 1]

\* DataCache.clear_cache (lines 118-127) on the file: os.remove is called
\* when the file exists; its failure is raised again and leaves the file
ClearCache(file, removed) ==
    [Outcome(IF removed THEN Returned(None) ELSE Raised, 0, 0, 0,
             IF removed THEN AbsentFile ELSE file)
        EXCEPT !.removes = IF file.kind = "absent" THEN 0 ELSE 1]

\* cache.clear_cache(); removed tells whether os.remove, if called, succeeds
ClearCacheCall ==
    \E removed \in BOOLEAN :
        /\ lastCall = NoCall
        /\ ~removed => cacheFile.kind # "absent"
        /\ cacheFile' = ClearCache(cacheFile, removed).file
        /\ lastSaved' = IF removed THEN None ELSE lastSaved
        /\ lastCall' = Call("clear_cache", FALSE, Unavailable, "ok", ClearCache(cacheFile, removed))
        /\ UNCHANGED <<now, legacyDtypes>>

\* os.path.getsize of a file json.load has read; the bytes are not modelled,
\* the size stands for them: the braces and one unit for each serialized row
FileSize(file) == 2 + Len(file.data.data)

\* GetCacheInfoBody that does not parse the timestamp: any file that exists
\* is reported
GetCacheInfoBodyNoParse(file, t) ==
    IF file.kind = "absent" THEN [raised |-> FALSE, info |-> DoesNotExist(FALSE)]
    ELSE [raised |-> FALSE,
          info |-> CacheInfo(TRUE, FileSize(file), <<file.timestamp>>, <<t - file.timestamp>>, FALSE)]

\* lines 136-158, the try block of get_cache_info: no file gives the "does
\* not exist" dict; json.load and fromisoformat(cache_data['timestamp'])
\* raise on a file that is no JSON or has no parseable timestamp; 'data' is
\* not read
GetCacheInfoBody(file, t) ==
    IF file.kind = "absent" THEN [raised |-> FALSE, info |-> DoesNotExist(FALSE)]
    ELSE IF file.kind = "corrupt" /\ file.why \in {"invalid_json", "no_timestamp", "bad_timestamp"}
    THEN [raised |-> TRUE, info |-> DoesNotExist(FALSE)]
    ELSE [raised |-> FALSE,
          info |-> CacheInfo(TRUE, FileSize(file), <<file.timestamp>>, <<t - file.timestamp>>, FALSE)]

\* lines 160-167, the except branch: the "does not exist" dict with 'error'
ErrorInfoIfRaised(r) == IF r.raised THEN DoesNotExist(TRUE) ELSE r.info

\* DataCache.get_cache_info
GetCacheInfo(file, t) ==
    [Outcome(Returned(None), 0, 0, 0, file) EXCEPT !.info = ErrorInfoIfRaised(GetCacheInfoBody(file, t))]

\* cache.get_cache_info()
GetCacheInfoCall ==
    /\ lastCall = NoCall
    /\ lastCall' = Call("get_cache_info", FALSE, Unavailable, "ok", GetCacheInfo(cacheFile, now))
    /\ cacheFile' = GetCacheInfo(cacheFile, now).file
    /\ UNCHANGED <<now, lastSaved, legacyDtypes>>

\* the caller goes on with what the call returned
Resume ==
    /\ lastCall # NoCall
    /\ lastCall' = NoCall
    /\ UNCHANGED <<now, cacheFile, lastSaved, legacyDtypes>>

\* time passes between calls
Tick ==
    \E d \in {CACHE_TTL, CACHE_TTL + 1} :
        /\ lastCall = NoCall
        /\ now + d <= MaxClock
        /\ now' = now + d
        /\ UNCHANGED <<cacheFile, lastSaved, lastCall, legacyDtypes>>

\* something other than this program damages the file between calls
CorruptCacheFile ==
    \E why \in CorruptKinds :
        /\ lastCall = NoCall
        /\ cacheFile' = Corrupt(why, IF why \in {"no_data", "bad_payload"} THEN now ELSE 0)
        /\ lastSaved' = None
        /\ UNCHANGED <<now, lastCall, legacyDtypes>>

Next ==
    \/ LoadDataCall
    \/ LoadFromCacheCall
    \/ ClearCacheCall
    \/ GetCacheInfoCall
    \/ Resume
    \/ Tick
    \/ CorruptCacheFile

Spec == Init /\ [][Next]_vars

(***************************************************************************)
(* Properties.                                                             *)
(***************************************************************************)
\* a call of load_data has just returned
Loaded == lastCall.op = "load_data"

\* the step is a call of load_data
LoadStep == lastCall = NoCall /\ lastCall'.op = "load_data"

\* a call of cache.load_from_cache has just returned
CacheRead == lastCall.op = "load_from_cache"

\* what the call returned, as an Optional[DataFrame]
Result == [some |-> lastCall.some, df |-> lastCall.df]

\* the file is a well-formed entry no older than the freshness window
FreshEntry(file, t) == file.kind = "entry" /\ t - file.timestamp <= CACHE_TTL

\* ... and the frame read from it passes the validation check
FreshValid(file, t) ==
    FreshEntry(file, t) /\ ValidateDataframe(LoadFromCache(legacyDtypes, file, t))

\* the answer of the spreadsheet held a grid, and the frame made of it
Answered == lastCall.resp.ok /\ lastCall.resp.values # <<>>
FetchedFrame == NormalizedOf[legacyDtypes][lastCall.resp.values]

\* C1: every frame load_data returns passes the validation check
C1_ReturnedFramesAreValid == (Loaded /\ lastCall.some) => ValidateDataframe(Result)

\* C2: a call without force_reload that finds a fresh entry passing the
\* validation check returns the frame read from it, fetches nothing and
\* leaves the cache file as it is
C2_FreshValidEntryIsReturned ==
    [][(LoadStep /\ ~lastCall'.force_reload /\ FreshValid(cacheFile, now))
        => /\ lastCall'.fetches = 0
           /\ lastCall'.cacheSaves = 0
           /\ cacheFile' = cacheFile
           /\ lastCall'.some
           /\ lastCall'.df = DeserializeOf[legacyDtypes][cacheFile.data].df]_vars

C2_Witness ==
    /\ Loaded /\ ~lastCall.force_reload
    /\ lastCall.fetches = 0 /\ lastCall.some
    /\ FreshValid(cacheFile, now)
    /\ now - cacheFile.timestamp = CACHE_TTL

\* C3: a call with force_reload never reads the cache and fetches once
C3_ForceReloadSkipsCache ==
    (Loaded /\ lastCall.force_reload) => (lastCall.cacheLoads = 0 /\ lastCall.fetches = 1)

C3_Witness ==
    /\ Loaded /\ lastCall.force_reload
    /\ lastCall.fetches = 1 /\ lastCall.cacheSaves = 0
    /\ FreshValid(cacheFile, now)

\* C4: load_from_cache returns None, and raises nothing, for a well-formed
\* entry older than 24 hours
C4_StaleEntryIsAbsent ==
    (CacheRead /\ cacheFile.kind = "entry" /\ now - cacheFile.timestamp > CACHE_TTL)
        => (~lastCall.some /\ ~lastCall.raised)

C4_Witness ==
    /\ CacheRead /\ cacheFile.kind = "entry"
    /\ now - cacheFile.timestamp = CACHE_TTL + 1
    /\ ~lastCall.some

\* two frames hold the same columns and rows, missing values being equal
SameCell(a, b) == (IsNa(a) /\ IsNa(b)) \/ a = b

SameFrame(a, b) ==
    /\ a.columns = b.columns
    /\ Len(a.data) = Len(b.data)
    /\ \A i \in 1..Len(a.data) : \A k \in 1..Len(a.columns) : SameCell(a.data[i][k], b.data[i][k])

\* C5: a frame saved and read back within 24 hours comes back equal
C5_RoundTrip ==
    (CacheRead /\ lastSaved.some /\ FreshEntry(cacheFile, now))
        => (lastCall.some /\ SameFrame(lastCall.df, lastSaved.df))

\* C6: load_from_cache never raises; it returns None for no file and for a
\* file that is no well-formed entry, and a frame for a fresh entry
C6_LoadFromCacheNeverRaises ==
    CacheRead =>
        /\ ~lastCall.raised
        /\ cacheFile.kind \in {"absent", "corrupt"} => ~lastCall.some
        /\ FreshEntry(cacheFile, now) => lastCall.some

C6_Witness ==
    /\ CacheRead /\ cacheFile.kind = "corrupt" /\ cacheFile.why = "bad_payload"
    /\ now - cacheFile.timestamp <= CACHE_TTL
    /\ ~lastCall.some /\ ~lastCall.raised

\* C7: a call without force_reload whose cache entry is absent, stale,
\* corrupt or fails the validation check fetches once, and returns the
\* fetched frame when that one is valid and saved
C7_BadCacheFallsThrough ==
    [][(LoadStep /\ ~lastCall'.force_reload /\ ~FreshValid(cacheFile, now))
        => /\ lastCall'.fetches = 1
           /\ (/\ lastCall'.resp.ok /\ lastCall'.resp.values # <<>>
               /\ lastCall'.disk = "ok"
               /\ ValidateDataframe(Some(NormalizedOf[legacyDtypes][lastCall'.resp.values])))
              => (lastCall'.some
                  /\ lastCall'.df = NormalizedOf[legacyDtypes][lastCall'.resp.values])]_vars

\* C8: a fetch saves its frame exactly when the frame passes the validation
\* check, and an invalid frame is not returned
C8_SavedIffValid ==
    (Loaded /\ Answered)
        => /\ (lastCall.cacheSaves = 1) <=> ValidateDataframe(Some(FetchedFrame))
           /\ ~ValidateDataframe(Some(FetchedFrame)) => ~lastCall.some

\* the grid has no data row: it is empty or holds the header row only
NoDataRows(values) == Len(values) <= 1

\* C9: load_data never raises, and an unreachable spreadsheet, a source
\* without data rows or a failed save end the call with None after one fetch
C9_FailuresGiveNoData ==
    Loaded =>
        /\ ~lastCall.raised
        /\ lastCall.fetches <= 1
        /\ (lastCall.fetches = 1 /\ ~lastCall.resp.ok) => ~lastCall.some
        /\ (lastCall.fetches = 1 /\ lastCall.resp.ok /\ NoDataRows(lastCall.resp.values))
               => ~lastCall.some
        /\ (lastCall.cacheSaves = 1 /\ lastCall.disk # "ok") => ~lastCall.some

\* the coach cell of a row of the frame, NaN when there is no such column
CoachOf(df, i) ==
    IF ColIndex(df.columns, "Trener") = 0 THEN NaN
    ELSE df.data[i][ColIndex(df.columns, "Trener")]

\* C10: no frame made of a fetched grid holds a row whose coach is "0"
C10_NoSentinelCoach ==
    (Loaded /\ lastCall.fetches = 1 /\ lastCall.some)
        => \A i \in 1..Len(lastCall.df.data) : CoachOf(lastCall.df, i) # StrCell(<<"0">>)

\* every row of the frame holds a date in the first column (not None, NaT
\* or a string)
AllDated(df) ==
    Len(df.columns) > 0 => \A i \in 1..Len(df.data) : df.data[i][1].t = "date"

\* C11: a row whose date text fails both parses is in no frame load_data
\* returns and in no frame it writes to the cache: every row of such a frame
\* holds a date
C11_NoUndatedRows ==
    /\ (Loaded /\ lastCall.some) => AllDated(lastCall.df)
    /\ (Loaded /\ lastCall.cacheSaves = 1 /\ lastSaved.some) => AllDated(lastSaved.df)

\* C12: a fetch whose grid has no data row (an empty grid, or the header row
\* only) gives None and writes nothing to the cache
C12_NoDataRowsFail ==
    (Loaded /\ lastCall.fetches = 1 /\ lastCall.resp.ok /\ NoDataRows(lastCall.resp.values))
        => /\ ~lastCall.some
           /\ lastCall.cacheSaves = 0

(***************************************************************************)
(* _process_numeric_columns on its own: the raw cell of a measure column   *)
(* is drawn at the start, then the method is applied to a one-row frame.   *)
(***************************************************************************)
MaxLen == 3

\* the characters of a raw measure cell
NumericAlphabet == {"0", "1", " ", "nbsp", ",", ".", "-"}

RawCells == SeqsUpTo(NumericAlphabet, MaxLen)

\* a frame of one row: a coach other than "0" and the raw cell under the
\* first name of NUMERIC_COLUMNS
NumericGrid(raw) == <<<<"Trener", NUMERIC_COLUMNS[1]>>, <<<<"A">>, raw>>>>

Pending(raw) ==
    Call("input", FALSE, Answer(NumericGrid(raw)), "ok", Outcome(Returned(None), 0, 0, 0, AbsentFile))

InitNumeric ==
    /\ now = 0
    /\ cacheFile = AbsentFile
    /\ lastSaved = None
    /\ legacyDtypes \in BOOLEAN
    /\ \E raw \in RawCells : lastCall = Pending(raw)

\* self._process_numeric_columns(df); the method returns a frame whatever
\* happens inside its try block
ProcessNumericColumnsCall ==
    /\ lastCall.op = "input"
    /\ lastCall' = Call("process_numeric_columns", FALSE, lastCall.resp, "ok",
                        Outcome(Returned(Some(ProcessNumericColumns(legacyDtypes,
                                                                    DataFrame(lastCall.resp.values)))),
                                0, 0, 0, AbsentFile))
    /\ UNCHANGED <<now, cacheFile, lastSaved, legacyDtypes>>

NextNumeric == ProcessNumericColumnsCall

SpecNumeric == InitNumeric /\ [][NextNumeric]_vars

\* the chain of the first definition of _process_numeric_columns (lines
\* 234-239), which the second definition replaces: '' and '-' are missing,
\* non-breaking spaces and spaces go, the comma becomes a period, the rest
\* is parsed
ReferenceNumeric(raw) ==
    IF raw = <<>> \/ raw = <<"-">> THEN NaN
    ELSE ToNumeric(StrReplace(StrReplace(StrReplace(raw, "nbsp", <<>>), ",", <<".">>), " ", <<>>))

\* the raw cell that was drawn, and the cell the method made of it
RawCell == lastCall.resp.values[2][2]
ProcessedCell == lastCall.df.data[1][2]

\* C13: the cell _process_numeric_columns makes of a raw measure cell is the
\* cell of the reference normalizer, and the method does not raise
C13_MatchesReference ==
    lastCall.op = "process_numeric_columns"
        => /\ ~lastCall.raised
           /\ Len(lastCall.df.data) = 1
           /\ ProcessedCell = ReferenceNumeric(RawCell)

\* the step is a call of cache.clear_cache
ClearStep == lastCall = NoCall /\ lastCall'.op = "clear_cache"

\* C14: a clear_cache that returns leaves no file, so that load_from_cache
\* gives None; on no file it raises nothing, calls no os.remove and leaves
\* the state as it is (a second clear_cache changes nothing); and a file
\* appears again in a call only through a save of load_data
C14_ClearCacheIdempotent ==
    [][/\ (ClearStep /\ ~lastCall'.raised)
            => /\ cacheFile' = AbsentFile
               /\ ~LoadFromCache(legacyDtypes, cacheFile', now').raised
               /\ ~LoadFromCache(legacyDtypes, cacheFile', now').some
       /\ (ClearStep /\ cacheFile = AbsentFile)
            => /\ ~lastCall'.raised
               /\ lastCall'.removes = 0
               /\ <<cacheFile', lastSaved', now'>> = <<cacheFile, lastSaved, now>>
       /\ (lastCall' # lastCall /\ cacheFile = AbsentFile /\ cacheFile' # AbsentFile)
            => (lastCall'.op = "load_data" /\ lastCall'.cacheSaves = 1)]_vars

\* clear_cache has returned from a call that found no file
C14_Witness ==
    /\ lastCall.op = "clear_cache"
    /\ ~lastCall.raised
    /\ lastCall.removes = 0
    /\ cacheFile = AbsentFile

\* the step is a call of cache.get_cache_info
InfoStep == lastCall = NoCall /\ lastCall'.op = "get_cache_info"

\* the dict has the "does not exist" shape, with or without the key 'error'
DoesNotExistShape(info) ==
    /\ ~info.exists
    /\ info.size = 0
    /\ info.last_modified = <<>>
    /\ info.age_hours = <<>>

\* the file exists, is JSON and carries a timestamp that parses
HasTimestamp(file) ==
    file.kind = "entry" \/ (file.kind = "corrupt" /\ file.why \in {"no_data", "bad_payload"})

\* C15 as stated: get_cache_info raises nothing and leaves the file; no file
\* or a file that cannot be read gives the "does not exist" shape; and
\* exists = True is reported only for a well-formed entry, with the age now
\* minus its timestamp
C15_InfoOnlyForWellFormedEntry ==
    [][InfoStep
        => /\ ~lastCall'.raised
           /\ cacheFile' = cacheFile
           /\ ~HasTimestamp(cacheFile) => DoesNotExistShape(lastCall'.info)
           /\ lastCall'.info.exists
                => /\ cacheFile.kind = "entry"
                   /\ lastCall'.info.age_hours = <<now - cacheFile.timestamp>>]_vars

\* C15, amended: get_cache_info raises nothing and leaves the file; no file,
\* or a file that is no JSON or has no parseable timestamp, gives the "does
\* not exist" shape; exists = True is reported exactly for a file with a
\* parseable timestamp, whatever its data part, with the age now minus that
\* timestamp
C15_InfoIsReadOnlySnapshot ==
    [][InfoStep
        => /\ ~lastCall'.raised
           /\ cacheFile' = cacheFile
           /\ ~HasTimestamp(cacheFile) => DoesNotExistShape(lastCall'.info)
           /\ lastCall'.info.exists
                => /\ HasTimestamp(cacheFile)
                   /\ lastCall'.info.last_modified = <<cacheFile.timestamp>>
                   /\ lastCall'.info.age_hours = <<now - cacheFile.timestamp>>
           /\ HasTimestamp(cacheFile) => lastCall'.info.exists]_vars

\* get_cache_info has reported exists = True for a file whose data part
\* cannot be loaded
C15_Witness ==
    /\ lastCall.op = "get_cache_info"
    /\ lastCall.info.exists
    /\ cacheFile.kind = "corrupt"
    /\ lastCall.info.age_hours = <<now - cacheFile.timestamp>>

\* the call of this step fetched and got nothing it may keep: no answer, no
\* data row, or a frame that fails the validation check
FetchedNothingValid ==
    /\ lastCall'.fetches = 1
    /\ \/ ~lastCall'.resp.ok
       \/ NoDataRows(lastCall'.resp.values)
       \/ ~ValidateDataframe(Some(NormalizedOf[legacyDtypes][lastCall'.resp.values]))

\* the call of this step wrote the file and returned the frame it wrote
SavedAndReturned == lastCall'.cacheSaves = 1 /\ lastCall'.some

\* C16: a call of load_data that does not end in a successful save leaves
\* the cache file as it was, in particular when the fetch fails or gives an
\* empty or invalid result; and no call other than a saving load_data or
\* clear_cache changes the file
C16_OnlySavesChangeEntry ==
    [][/\ (LoadStep /\ ~SavedAndReturned) => cacheFile' = cacheFile
       /\ (LoadStep /\ FetchedNothingValid) => cacheFile' = cacheFile
       /\ (lastCall' # lastCall /\ cacheFile' # cacheFile)
            => \/ lastCall'.op = "load_data" /\ lastCall'.cacheSaves = 1
               \/ lastCall'.op = "clear_cache"]_vars

====
